---- MODULE Spec2Model ----
(***************************************************************************)
(* A model of the payment-operations feedback loop: the governance         *)
(* guardrail (src/governance.py) and the adaptive threshold policy         *)
(* (src/adaptive.py), the observer (src/core/agent.py) and the payment     *)
(* simulator (src/simulation/simulator.py).  A Python float is a binary64  *)
(* float and is modelled bit for bit, with its rounding, gradual underflow *)
(* and overflow.                                                           *)
(*                                                                         *)
(* Time is counted in whole seconds since the guardrail was constructed.   *)
(* datetime differences are timedelta values; timedelta.seconds is the     *)
(* seconds component of the normalised (days, seconds, microseconds)       *)
(* triple, so it is the difference modulo one day.                         *)
(***************************************************************************)
EXTENDS Integers, Sequences, FiniteSets, TLC

VARIABLES
    now,            \* the wall clock datetime.now() reads, in seconds
    action_log,     \* GovernanceGuardrails.action_log: sequence of timestamps
    results,        \* the calls of allow() made so far, with what each returned
    pc,             \* per caller: position inside allow() (concurrent callers)
    t_decision,     \* per caller: the decision's action_type.value
    t_now,          \* per caller: the local `now`
    t_count,        \* per caller: len(last_hour)
    success_threshold,  \* AdaptivePolicy.success_threshold, a binary64 float
    update_calls,   \* the number of update() calls made so far
    metrics,        \* the argument of the latest update() call
    returned,       \* the value the latest update() call returned
    applied,        \* how many update() calls tightened, and how many relaxed
    signals,        \* PaymentObserver.signals: the history
    recent_signals, \* AgentMemory.recent_signals
    fed,            \* the constructor arguments of every signal observed
    snapshot,       \* what the latest calculate_metrics() call returned
    o_pc,           \* per producer: position inside observe()
    o_signal,       \* per producer: the signal being observed
    degradation_scenarios,  \* PaymentSimulator.degradation_scenarios
    transaction_counter,    \* PaymentSimulator.transaction_counter
    gen,            \* the outcome of the latest generate_payment() call
    issued,         \* the transaction ids of the signals returned so far
    batch           \* the outcome of the latest generate_batch() call

govVars == <<now, action_log, results>>
thrVars == <<pc, t_decision, t_now, t_count>>
polVars == <<success_threshold, update_calls, metrics, returned, applied>>
obsVars == <<signals, recent_signals, fed, snapshot, o_pc, o_signal>>
simVars == <<degradation_scenarios, transaction_counter, gen, issued, batch>>
vars == <<now, action_log, results, pc, t_decision, t_now, t_count,
          success_threshold, update_calls, metrics, returned, applied,
          signals, recent_signals, fed, snapshot, o_pc, o_signal,
          degradation_scenarios, transaction_counter, gen, issued, batch>>

(***************************************************************************)
(* Bounds of the model.                                                    *)
(***************************************************************************)
MaxAllowCalls == 7

\* The instants at which the clock is read.  Their differences cover ages
\* below one hour (1, 3599), of exactly one hour (3600), above it (3601,
\* 82800), just below one day (86399), exactly one day (86400), and one day
\* plus up to an hour (89999, 90000).
Instants == {0, 1, 3600, 3601, 86400, 90000}

\* The action kinds a decision may carry.
ActionTypes == {"DISABLE_PAYMENT_METHOD", "ADJUST_RETRY_POLICY"}

Callers == {"c1", "c2"}

(***************************************************************************)
(* GovernanceGuardrails                                                    *)
(***************************************************************************)
max_autonomous_actions_per_hour == 5

high_risk_actions == {"DISABLE_PAYMENT_METHOD"}

SecondsPerDay == 86400

WindowSeconds == 3600

\* timedelta.seconds of the difference d (in seconds) of two datetimes:
\* timedelta normalises to 0 <= seconds < 86400 with the days kept apart.
TdSeconds(d) == d % SecondsPerDay

\* A variant that keeps only the entries made at the instant of the call.
last_hour_SameInstantOnly(log, n) == SelectSeq(log, LAMBDA a : TdSeconds(n - a) < 1)

\* [a for a in self.action_log if (now-a).seconds<3600]
last_hour(log, n) == SelectSeq(log, LAMBDA a : TdSeconds(n - a) < WindowSeconds)

\* A variant with the comparison off by one: a sixth action passes.
RateLimited_OffByOne(count) == count > max_autonomous_actions_per_hour

\* len(last_hour)>=self.max_autonomous_actions_per_hour
RateLimited(count) == count >= max_autonomous_actions_per_hour

HighRisk(kind) == kind \in high_risk_actions

\* A variant that records the attempt before the high-risk rejection.
allow_RecordsHighRisk(log, n, kind) ==
    LET count == Len(last_hour(log, n)) IN
    IF RateLimited(count)
      THEN [approved |-> FALSE, reason |-> "Rate limit exceeded",
            log |-> log, counted |-> count]
    ELSE IF HighRisk(kind)
      THEN [approved |-> FALSE, reason |-> "High-risk action requires approval",
            log |-> Append(log, n), counted |-> count]
    ELSE [approved |-> TRUE, reason |-> "Allowed",
          log |-> Append(log, n), counted |-> count]

\* A variant that makes the high-risk check first.
allow_HighRiskFirst(log, n, kind) ==
    LET count == Len(last_hour(log, n)) IN
    IF HighRisk(kind)
      THEN [approved |-> FALSE, reason |-> "High-risk action requires approval",
            log |-> log, counted |-> count]
    ELSE IF RateLimited(count)
      THEN [approved |-> FALSE, reason |-> "Rate limit exceeded",
            log |-> log, counted |-> count]
    ELSE [approved |-> TRUE, reason |-> "Allowed",
          log |-> Append(log, n), counted |-> count]

\* A variant that records the attempt before the rate-limit rejection.
allow_RecordsRateLimited(log, n, kind) ==
    LET count == Len(last_hour(log, n)) IN
    IF RateLimited(count)
      THEN [approved |-> FALSE, reason |-> "Rate limit exceeded",
            log |-> Append(log, n), counted |-> count]
    ELSE IF HighRisk(kind)
      THEN [approved |-> FALSE, reason |-> "High-risk action requires approval",
            log |-> log, counted |-> count]
    ELSE [approved |-> TRUE, reason |-> "Allowed",
          log |-> Append(log, n), counted |-> count]

\* The pair allow() returns and the ledger it leaves, from the ledger it
\* finds, the clock value it reads and the decision's action kind.
allow(log, n, kind) ==
    LET count == Len(last_hour(log, n)) IN
    IF RateLimited(count)
      THEN [approved |-> FALSE, reason |-> "Rate limit exceeded",
            log |-> log, counted |-> count]
    ELSE IF HighRisk(kind)
      THEN [approved |-> FALSE, reason |-> "High-risk action requires approval",
            log |-> log, counted |-> count]
    ELSE [approved |-> TRUE, reason |-> "Allowed",
          log |-> Append(log, n), counted |-> count]

(***************************************************************************)
(* Binary64 floating point.  A finite non-negative float is m * 2^e with   *)
(* the integer significand m < 2^53 held as four 14-bit limbs, least       *)
(* significant first, so that no intermediate value leaves 32 bits.  A     *)
(* normal float has 2^52 <= m; a subnormal one has e = -1074 and m < 2^52. *)
(***************************************************************************)
LimbBits == 14

Base == 16384

MantBits == 53

EMin == -1074

EMaxUlp == 971

Infinity == [inf |-> TRUE, m |-> <<0, 0, 0, 0>>, e |-> 0]

RECURSIVE Pow2(_)
Pow2(n) == IF n = 0 THEN 1 ELSE 2 * Pow2(n - 1)

Limb(a, i) == IF i \in DOMAIN a THEN a[i] ELSE 0

Max(a, b) == IF a >= b THEN a ELSE b

\* The sum of the limb products a_i * b_(k-i), limbs counted from 0.
RECURSIVE ColSum(_, _, _, _)
ColSum(a, b, k, i) ==
    IF i > 3 THEN 0
    ELSE (IF k - i \in 0..3 THEN a[i + 1] * b[k - i + 1] ELSE 0)
         + ColSum(a, b, k, i + 1)

RECURSIVE MulFrom(_, _, _, _)
MulFrom(a, b, k, carry) ==
    IF k > 7 THEN <<>>
    ELSE LET s == ColSum(a, b, k, 0) + carry IN
         <<s % Base>> \o MulFrom(a, b, k + 1, s \div Base)

\* The exact product of two significands, as eight limbs.
LimbMul(a, b) == MulFrom(a, b, 0, 0)

RECURSIVE SmallBitLen(_)
SmallBitLen(x) == IF x = 0 THEN 0 ELSE 1 + SmallBitLen(x \div 2)

RECURSIVE BitLenFrom(_, _)
BitLenFrom(a, i) ==
    IF i = 0 THEN 0
    ELSE IF a[i] # 0 THEN LimbBits * (i - 1) + SmallBitLen(a[i])
    ELSE BitLenFrom(a, i - 1)

\* The number of significant bits of a limb sequence.
BitLen(a) == BitLenFrom(a, Len(a))

\* Bit i (from 0) of a limb sequence.
BitAt(a, i) == (Limb(a, i \div LimbBits + 1) \div Pow2(i % LimbBits)) % 2

\* The bits 0..n-1 of a limb sequence are all zero.
LowZero(a, n) ==
    /\ \A i \in 1..(n \div LimbBits) : Limb(a, i) = 0
    /\ Limb(a, n \div LimbBits + 1) % Pow2(n % LimbBits) = 0

\* The four low limbs of a shifted right by s bits (the rest is dropped).
ShiftRight(a, s) ==
    LET q == s \div LimbBits
        r == s % LimbBits
    IN [j \in 1..4 |->
          (Limb(a, q + j) \div Pow2(r))
          + (Limb(a, q + j + 1) % Pow2(r)) * Pow2(LimbBits - r)]

RECURSIVE IncFrom(_, _)
IncFrom(a, i) ==
    IF i > Len(a) THEN a
    ELSE IF a[i] + 1 < Base THEN [a EXCEPT ![i] = a[i] + 1]
    ELSE IncFrom([a EXCEPT ![i] = 0], i + 1)

\* a + 1 on limbs (a < 2^53, so the sum fits the four limbs).
Inc(a) == IncFrom(a, 1)

\* p * 2^e rounded to the nearest float, ties to the even significand:
\* the significand keeps 53 bits, fewer when e would fall below -1074
\* (gradual underflow); a result of 2^1024 or more is +inf.
RoundNearestEven(p, e) ==
    LET s == Max(Max(BitLen(p) - MantBits, EMin - e), 0)
        kept == ShiftRight(p, s)
        half == s > 0 /\ BitAt(p, s - 1) = 1
        sticky == s > 1 /\ ~LowZero(p, s - 1)
        up == half /\ (sticky \/ kept[1] % 2 = 1)
        m1 == IF up THEN Inc(kept) ELSE kept
        carried == BitLen(m1) > MantBits
        m2 == IF carried THEN ShiftRight(m1, 1) ELSE m1
        e2 == IF carried THEN e + s + 1 ELSE e + s
    IN IF BitLen(m2) = MantBits /\ e2 > EMaxUlp
         THEN Infinity
         ELSE [inf |-> FALSE, m |-> m2, e |-> e2]

\* x * y on non-negative floats, neither of them 0 when the other is +inf.
FMul(x, y) ==
    IF x.inf \/ y.inf THEN Infinity
    ELSE RoundNearestEven(LimbMul(x.m, y.m), x.e + y.e)

RECURSIVE LimbsLess(_, _, _)
LimbsLess(a, b, i) ==
    IF i = 0 THEN FALSE
    ELSE IF a[i] # b[i] THEN a[i] < b[i]
    ELSE LimbsLess(a, b, i - 1)

\* x < y on non-negative floats.
FLess(x, y) ==
    IF x.inf THEN FALSE
    ELSE IF y.inf THEN TRUE
    ELSE IF x.e # y.e THEN x.e < y.e
    ELSE LimbsLess(x.m, y.m, 4)

\* The float 0.0.
Zero == [inf |-> FALSE, m |-> <<0, 0, 0, 0>>, e |-> EMin]

Min(a, b) == IF a <= b THEN a ELSE b

\* 2^k as four limbs, k < 56.
PowLimbs(k) ==
    [j \in 1..4 |-> IF j = k \div LimbBits + 1 THEN Pow2(k % LimbBits) ELSE 0]

\* a + b on limb sequences of one length (the sum fits it).
RECURSIVE LimbAddFrom(_, _, _, _)
LimbAddFrom(a, b, i, carry) ==
    IF i > Len(a) THEN <<>>
    ELSE LET s == a[i] + b[i] + carry IN
         <<s % Base>> \o LimbAddFrom(a, b, i + 1, s \div Base)

LimbAdd(a, b) == LimbAddFrom(a, b, 1, 0)

\* a - b on limb sequences of one length, a >= b.
RECURSIVE LimbSubFrom(_, _, _, _)
LimbSubFrom(a, b, i, borrow) ==
    IF i > Len(a) THEN <<>>
    ELSE LET s == a[i] - b[i] - borrow IN
         <<(s + Base) % Base>> \o
            LimbSubFrom(a, b, i + 1, IF s < 0 THEN 1 ELSE 0)

LimbSub(a, b) == LimbSubFrom(a, b, 1, 0)

\* The float with the value of f and the canonical significand: 53 bits,
\* or fewer at e = -1074.
Normalize(f) ==
    IF f.inf THEN Infinity
    ELSE IF BitLen(f.m) = 0 THEN Zero
    ELSE LET k == Max(Min(MantBits - BitLen(f.m), f.e - EMin), 0) IN
         IF k = 0 THEN f
         ELSE [inf |-> FALSE,
               m |-> SubSeq(LimbMul(f.m, PowLimbs(k)), 1, 4),
               e |-> f.e - k]

\* The significand of x as eight limbs, in units of 2^e (e <= x.e < e + 56).
Aligned(x, e) ==
    IF x.e = e THEN x.m \o <<0, 0, 0, 0>> ELSE LimbMul(x.m, PowLimbs(x.e - e))

\* x + y on non-negative floats.  When the exponents are 56 or more apart
\* the smaller operand is below an eighth of the last place of the larger,
\* and the sum rounds to the larger.
FAdd(x, y) ==
    IF x.inf \/ y.inf THEN Infinity
    ELSE IF x.e - y.e >= 56 THEN x
    ELSE IF y.e - x.e >= 56 THEN y
    ELSE LET e == Min(x.e, y.e) IN
         Normalize(RoundNearestEven(LimbAdd(Aligned(x, e), Aligned(y, e)), e))

\* x - y on finite non-negative floats, y <= x.
FSub(x, y) ==
    IF x.e - y.e >= 56 THEN x
    ELSE LET e == Min(x.e, y.e) IN
         Normalize(RoundNearestEven(LimbSub(Aligned(x, e), Aligned(y, e)), e))

\* A float with its sign.
Signed(neg, a) == [neg |-> neg, abs |-> a]

\* x - y on finite signed floats.
SSub(x, y) ==
    IF x.neg # y.neg THEN Signed(x.neg, FAdd(x.abs, y.abs))
    ELSE IF x.abs = y.abs THEN Signed(FALSE, Zero)
    ELSE IF FLess(x.abs, y.abs) THEN Signed(~x.neg, FSub(y.abs, x.abs))
    ELSE Signed(x.neg, FSub(x.abs, y.abs))

\* x * y on signed floats.
SMul(x, y) == Signed(x.neg # y.neg, Normalize(FMul(x.abs, y.abs)))

\* x < y on signed floats.
SLess(x, y) ==
    IF x.abs = Zero /\ y.abs = Zero THEN FALSE
    ELSE IF x.neg # y.neg THEN x.neg
    ELSE IF x.neg THEN FLess(y.abs, x.abs)
    ELSE FLess(x.abs, y.abs)

\* int(x) on a finite signed float below 2^31 in magnitude: the integer
\* part, the fraction dropped.
FloatToInt(x) ==
    LET a == IF x.abs.e >= 0
               THEN SubSeq(LimbMul(x.abs.m, PowLimbs(x.abs.e)), 1, 4)
               ELSE ShiftRight(x.abs.m, 0 - x.abs.e)
        n == a[1] + Base * a[2] + Base * Base * a[3]
    IN IF x.neg THEN 0 - n ELSE n

(***************************************************************************)
(* AdaptivePolicy                                                          *)
(***************************************************************************)
\* The float literals of adaptive.py, each the double nearest its decimal.
F_0_8 == [inf |-> FALSE, m |-> <<6554, 9830, 6553, 1638>>, e |-> -53]

F_0_95 == [inf |-> FALSE, m |-> <<9830, 6553, 9830, 1945>>, e |-> -53]

F_1_05 == [inf |-> FALSE, m |-> <<3277, 13107, 3276, 1075>>, e |-> -52]

\* A success rate is the float nearest the quotient n/d of two small
\* integers (success / total).  Rounding to nearest is monotone and n/d
\* differs from 7/10 and 9/10 by at least 1/(10 d), far more than one unit
\* in the last place, so the floats compare as the quotients do.
Rate(n, d) == [n |-> n, d |-> d]

\* sr < 0.7
BelowTighten(sr) == sr.n * 10 < 7 * sr.d

\* sr > 0.9
AboveRelax(sr) == sr.n * 10 > 9 * sr.d

\* A variant whose default for a missing key is 1.
GetSuccessRate_DefaultOne(mt) ==
    IF "success_rate" \in DOMAIN mt THEN mt["success_rate"] ELSE Rate(1, 1)

\* metrics.get("success_rate", 0): a dict is a function on its keys.
GetSuccessRate(mt) ==
    IF "success_rate" \in DOMAIN mt THEN mt["success_rate"] ELSE Rate(0, 1)

\* A variant whose comparisons include the two boundary rates.
update_InclusiveBounds(threshold, mt) ==
    LET sr == GetSuccessRate(mt) IN
    IF sr.n * 10 <= 7 * sr.d THEN FMul(threshold, F_0_95)
    ELSE IF sr.n * 10 >= 9 * sr.d THEN FMul(threshold, F_1_05)
    ELSE threshold

\* A variant with the two factors exchanged.
update_SwappedFactors(threshold, mt) ==
    LET sr == GetSuccessRate(mt) IN
    IF BelowTighten(sr) THEN FMul(threshold, F_1_05)
    ELSE IF AboveRelax(sr) THEN FMul(threshold, F_0_95)
    ELSE threshold

\* A variant that relaxes by 1.05 twice over.
update_RelaxSquared(threshold, mt) ==
    LET sr == GetSuccessRate(mt) IN
    IF BelowTighten(sr) THEN FMul(threshold, F_0_95)
    ELSE IF AboveRelax(sr) THEN FMul(FMul(threshold, F_1_05), F_1_05)
    ELSE threshold

\* A variant that saturates the threshold at 1.0 when relaxing.
update_ClampedAtOne(threshold, mt) ==
    LET sr == GetSuccessRate(mt)
        one == [inf |-> FALSE, m |-> <<0, 0, 0, 1024>>, e |-> -52]
    IN
    IF BelowTighten(sr) THEN FMul(threshold, F_0_95)
    ELSE IF AboveRelax(sr)
      THEN (IF FLess(one, FMul(threshold, F_1_05))
              THEN one ELSE FMul(threshold, F_1_05))
    ELSE threshold

\* The threshold update() stores (and returns), from the stored one.
update(threshold, mt) ==
    LET sr == GetSuccessRate(mt) IN
    IF BelowTighten(sr) THEN FMul(threshold, F_0_95)
    ELSE IF AboveRelax(sr) THEN FMul(threshold, F_1_05)
    ELSE threshold

(***************************************************************************)
(* PaymentSignal and PaymentObserver (src/core/agent.py)                   *)
(***************************************************************************)
MaxSignals == 3

Producers == {"p1", "p2"}

\* The status argument of a PaymentSignal: a plain str, or a member of
\* PaymentStatus (a str-mixin Enum) with that value.
PlainStr(v) == [enum |-> FALSE, value |-> v]

Member(v) == [enum |-> TRUE, value |-> v]

\* class PaymentStatus(str, Enum): the values of its three members.
PaymentStatus == {"success", "failure", "pending"}

\* str(status): a plain str is itself; a member of a str-mixin Enum prints
\* as Enum.__str__ does, "<class name>.<member name>".
Str(status) ==
    IF ~status.enum THEN status.value
    ELSE CASE status.value = "success" -> "PaymentStatus.SUCCESS"
           [] status.value = "failure" -> "PaymentStatus.FAILURE"
           [] status.value = "pending" -> "PaymentStatus.PENDING"

\* PaymentSignal.__init__: the fields calculate_metrics and the claims
\* read.  retry_count and every other keyword the constructor does not
\* name land in **kwargs and are dropped.
PaymentSignal(transaction_id, args) ==
    [transaction_id |-> transaction_id,
     status |-> Str(args.status),
     latency_ms |-> args.latency_ms,
     error_code |-> args.error_code]

\* The constructor arguments producers pass: each status as a plain str (the
\* dashboard) and as a member of PaymentStatus (the simulator, and the
\* constructor's own default), with and without a retry count.
SignalInputs ==
    {[status |-> st, latency_ms |-> 100, error_code |-> "None", retry_count |-> 0] :
        st \in {PlainStr(v) : v \in PaymentStatus} \cup {Member(v) : v \in PaymentStatus}}
    \cup
    {[status |-> st, latency_ms |-> 300, error_code |-> "TIMEOUT", retry_count |-> 3] :
        st \in {PlainStr(v) : v \in PaymentStatus} \cup {Member(v) : v \in PaymentStatus}}

\* The arguments the concurrent producers pass.
ConcurrentInputs ==
    {a \in SignalInputs : a.status \in {PlainStr("success"), Member("failure")}
                           /\ a.retry_count = 0}

\* sum(1 for s in self.signals if s.status == v)
CountStatus(hist, v) == Cardinality({i \in DOMAIN hist : hist[i].status = v})

RECURSIVE SumLatency(_, _)
SumLatency(hist, i) ==
    IF i = 0 THEN 0 ELSE hist[i].latency_ms + SumLatency(hist, i - 1)

ZeroMetrics ==
    [total_volume |-> 0, success_count |-> 0, failure_count |-> 0,
     success_rate |-> Rate(0, 1), failure_rate |-> Rate(0, 1),
     avg_latency |-> Rate(0, 1), retry_rate |-> Rate(0, 1)]

\* A variant without the total == 0 guard: the quotients are taken by 0.
calculate_metrics_NoZeroGuard(hist) ==
    LET total == Len(hist)
        success == CountStatus(hist, "success")
        failure == CountStatus(hist, "failure")
    IN [total_volume |-> total, success_count |-> success,
        failure_count |-> failure,
        success_rate |-> Rate(success, total),
        failure_rate |-> Rate(failure, total),
        avg_latency |-> Rate(SumLatency(hist, total), total),
        retry_rate |-> Rate(0, 1)]

\* A variant that reports the failures as the retry rate.
calculate_metrics_RetryFromFailures(hist) ==
    LET total == Len(hist)
        success == CountStatus(hist, "success")
        failure == CountStatus(hist, "failure")
    IN IF total = 0 THEN ZeroMetrics
       ELSE [total_volume |-> total, success_count |-> success,
             failure_count |-> failure,
             success_rate |-> Rate(success, total),
             failure_rate |-> Rate(failure, total),
             avg_latency |-> Rate(SumLatency(hist, total), total),
             retry_rate |-> Rate(failure, total)]

\* A variant that computes over the two latest signals.
calculate_metrics_LastTwo(hist) ==
    LET recent == IF Len(hist) > 2 THEN SubSeq(hist, Len(hist) - 1, Len(hist)) ELSE hist
        total == Len(recent)
        success == CountStatus(recent, "success")
        failure == CountStatus(recent, "failure")
    IN IF total = 0 THEN ZeroMetrics
       ELSE [total_volume |-> total, success_count |-> success,
             failure_count |-> failure,
             success_rate |-> Rate(success, total),
             failure_rate |-> Rate(failure, total),
             avg_latency |-> Rate(SumLatency(recent, total), total),
             retry_rate |-> Rate(0, 1)]

\* PaymentObserver.calculate_metrics.  A quotient a / b of two integers is
\* the float nearest it, written Rate(a, b); 0.0 is Rate(0, 1).
calculate_metrics(hist) ==
    LET total == Len(hist)
        success == CountStatus(hist, "success")
        failure == CountStatus(hist, "failure")
    IN IF total = 0 THEN ZeroMetrics
       ELSE [total_volume |-> total, success_count |-> success,
             failure_count |-> failure,
             success_rate |-> Rate(success, total),
             failure_rate |-> Rate(failure, total),
             avg_latency |-> Rate(SumLatency(hist, total), total),
             retry_rate |-> Rate(0, 1)]

\* A variant that keeps only the two latest signals.
list_append_KeepsTwo(lst, x) ==
    IF Len(lst) >= 2 THEN Append(Tail(lst), x) ELSE Append(lst, x)

\* list.append: one indivisible step of the interpreter.
list_append(lst, x) == Append(lst, x)

NoSnapshot ==
    [taken |-> FALSE, at |-> 0, quiet |-> TRUE, repeat |-> FALSE, m |-> ZeroMetrics]

NoSignal == PaymentSignal(0, [status |-> PlainStr("pending"), latency_ms |-> 0,
                               error_code |-> "None", retry_count |-> 0])

InitObserver ==
    /\ signals = <<>>
    /\ recent_signals = <<>>
    /\ fed = <<>>
    /\ snapshot = NoSnapshot
    /\ o_pc = [p \in Producers |-> "idle"]
    /\ o_signal = [p \in Producers |-> NoSignal]

\* A producer builds a signal and one whole observe(signal) call runs.
Observe ==
    /\ Len(fed) < MaxSignals
    /\ \E args \in SignalInputs :
         LET sig == PaymentSignal(Len(fed) + 1, args) IN
         /\ signals' = list_append(signals, sig)
         /\ recent_signals' = list_append(recent_signals, sig)
         /\ fed' = Append(fed, args)
    /\ UNCHANGED <<snapshot, o_pc, o_signal>>
    /\ UNCHANGED <<govVars, thrVars, polVars, simVars>>

\* One call of calculate_metrics(); `at` is the number of observe calls
\* that have returned, `quiet` that none is under way, `repeat` that no
\* observe call was made since the calculate_metrics() call before this one.
CalcMetrics ==
    /\ snapshot' = [taken |-> TRUE,
                    at |-> Len(fed) - Cardinality({p \in Producers : o_pc[p] # "idle"}),
                    quiet |-> \A p \in Producers : o_pc[p] = "idle",
                    repeat |-> /\ snapshot.taken /\ snapshot.quiet
                               /\ snapshot.at = Len(fed)
                               /\ \A p \in Producers : o_pc[p] = "idle",
                    m |-> calculate_metrics(signals)]
    /\ UNCHANGED <<signals, recent_signals, fed, o_pc, o_signal>>
    /\ UNCHANGED <<govVars, thrVars, polVars, simVars>>

\* Concurrent producers: observe() is entered with the signal built, ...
ObserveCall(p) ==
    /\ o_pc[p] = "idle"
    /\ Len(fed) < MaxSignals
    /\ \E args \in ConcurrentInputs :
         /\ o_signal' = [o_signal EXCEPT ![p] = PaymentSignal(Len(fed) + 1, args)]
         /\ fed' = Append(fed, args)
    /\ o_pc' = [o_pc EXCEPT ![p] = "history"]
    /\ UNCHANGED <<signals, recent_signals, snapshot>>
    /\ UNCHANGED <<govVars, thrVars, polVars, simVars>>

\* ... self.signals.append(signal) runs, ...
AppendHistory(p) ==
    /\ o_pc[p] = "history"
    /\ signals' = list_append(signals, o_signal[p])
    /\ o_pc' = [o_pc EXCEPT ![p] = "memory"]
    /\ UNCHANGED <<recent_signals, fed, snapshot, o_signal>>
    /\ UNCHANGED <<govVars, thrVars, polVars, simVars>>

\* ... and self.memory.recent_signals.append(signal), and the call returns.
AppendMemory(p) ==
    /\ o_pc[p] = "memory"
    /\ recent_signals' = list_append(recent_signals, o_signal[p])
    /\ o_pc' = [o_pc EXCEPT ![p] = "idle"]
    /\ UNCHANGED <<signals, fed, snapshot, o_signal>>
    /\ UNCHANGED <<govVars, thrVars, polVars, simVars>>

(***************************************************************************)
(* AdaptivePolicy: the calls of update(), and the metrics they are given.  *)
(***************************************************************************)
NoMetrics == [k \in {} |-> Rate(0, 1)]

WithRate(n, d) == [k \in {"success_rate"} |-> Rate(n, d)]

\* The metrics update() is called with: no success_rate key at all, what
\* calculate_metrics() returns for an observer that has seen no signal, and
\* rates below, at, between and above the two comparison values.
MetricsInputs ==
    {NoMetrics, calculate_metrics(<<>>), WithRate(0, 1), WithRate(1, 2),
     WithRate(7, 10), WithRate(4, 5), WithRate(9, 10), WithRate(19, 20)}

\* The two rates of the repeated-update runs: 0.5 and 0.95.
DriftInputs == {WithRate(1, 2), WithRate(19, 20)}

MaxUpdateCalls == 4

MaxDriftCalls == 14600

NoneApplied == [tightened |-> 0, relaxed |-> 0]

\* The counts after one more call of update(mt).
Count(counts, mt) ==
    LET sr == GetSuccessRate(mt) IN
    IF BelowTighten(sr) THEN [counts EXCEPT !.tightened = @ + 1]
    ELSE IF AboveRelax(sr) THEN [counts EXCEPT !.relaxed = @ + 1]
    ELSE counts

InitPolicy ==
    /\ success_threshold = F_0_8
    /\ update_calls = 0
    /\ metrics = NoMetrics
    /\ returned = F_0_8
    /\ applied = NoneApplied

\* One call of update(metrics).
Update ==
    /\ update_calls < MaxUpdateCalls
    /\ \E mt \in MetricsInputs :
         /\ metrics' = mt
         /\ success_threshold' = update(success_threshold, mt)
         /\ returned' = update(success_threshold, mt)
         /\ applied' = Count(applied, mt)
    /\ update_calls' = update_calls + 1
    /\ UNCHANGED govVars
    /\ UNCHANGED thrVars
    /\ UNCHANGED <<obsVars, simVars>>

\* One more call of update() with the same metrics as every call before.
UpdateAgain ==
    /\ update_calls < MaxDriftCalls
    /\ success_threshold' = update(success_threshold, metrics)
    /\ returned' = update(success_threshold, metrics)
    /\ applied' = Count(applied, metrics)
    /\ update_calls' = update_calls + 1
    /\ UNCHANGED metrics
    /\ UNCHANGED govVars
    /\ UNCHANGED thrVars
    /\ UNCHANGED <<obsVars, simVars>>

(***************************************************************************)
(* PaymentSimulator                                                        *)
(***************************************************************************)
MaxScenarios == 2

MaxGenerate == 2

\* The pools random.choice draws from: two members of each list.
payment_methods == {"visa", "amex"}

issuer_banks == {"chase", "bofa"}

error_codes == {"E001_INSUFFICIENT_FUNDS", "E005_FRAUD_SUSPECTED"}

\* random.randint(200, 800) with the random.randint(-100, 100) added to it
\* later: the lowest and the highest of each; random.randint(1, 4): its
\* two ends.
LatencyDraws == {[base |-> 200, noise |-> -100], [base |-> 800, noise |-> 100]}

RetryCounts == {1, 4}

\* The float of a small non-negative int, as int * float and int - float
\* convert it.
FromInt(n) ==
    Signed(FALSE, Normalize([inf |-> FALSE,
                             m |-> <<n % Base, n \div Base, 0, 0>>,
                             e |-> 0]))

F_0 == FromInt(0)

F_1 == FromInt(1)

F_300 == FromInt(300)

F_1000 == FromInt(1000)

\* The float literals of simulator.py and the severities of its scenarios,
\* each the double nearest its decimal.
F_0_85 == Signed(FALSE, [inf |-> FALSE, m |-> <<13107, 3276, 13107, 1740>>, e |-> -53])

F_0_7 == Signed(FALSE, [inf |-> FALSE, m |-> <<9830, 6553, 9830, 1433>>, e |-> -53])

F_0_1 == Signed(FALSE, [inf |-> FALSE, m |-> <<6554, 9830, 6553, 1638>>, e |-> -56])

F_0_6 == Signed(FALSE, [inf |-> FALSE, m |-> <<13107, 3276, 13107, 1228>>, e |-> -53])

F_0_4 == Signed(FALSE, [inf |-> FALSE, m |-> <<6554, 9830, 6553, 1638>>, e |-> -54])

F_0_5 == Signed(FALSE, [inf |-> FALSE, m |-> <<0, 0, 0, 1024>>, e |-> -53])

F_0_25 == Signed(FALSE, [inf |-> FALSE, m |-> <<0, 0, 0, 1024>>, e |-> -54])

Neg(x) == Signed(~x.neg, x.abs)

ScenarioArgs(t, a, s, d, v) ==
    [scenario_type |-> t, affected_dimension |-> a, start_after |-> s,
     duration |-> d, severity |-> v]

\* The arguments add_degradation_scenario is called with: the five kinds of
\* setup_realistic_scenarios on windows that fit the run, four with the
\* severities they have there, one with a severity below 0, and a call
\* with a negative duration.
ScenarioInputs ==
    {ScenarioArgs("issuer_degradation", "chase", 1, 1, F_0_6),
     ScenarioArgs("method_fatigue", "visa", 2, 0, F_0_4),
     ScenarioArgs("retry_storm", "global", 1, 0, F_0_5),
     ScenarioArgs("error_clustering", "E005_FRAUD_SUSPECTED", 1, 1, F_0_25),
     ScenarioArgs("latency_spike", "global", 1, 1, Neg(F_0_5)),
     ScenarioArgs("method_fatigue", "amex", 2, -1, F_0_4)}

\* add_degradation_scenario: the scenario list after the call.
add_degradation_scenario(scenarios, a) ==
    Append(scenarios,
           [type |-> a.scenario_type, affected |-> a.affected_dimension,
            start |-> a.start_after, end |-> a.start_after + a.duration,
            severity |-> a.severity])

\* The outcomes of random.random() < x for a draw from [0.0, 1.0).
RandomBelow(x) ==
    {h \in BOOLEAN : /\ h => SLess(F_0, x)
                     /\ ~h => SLess(x, F_1)}

\* A variant whose window leaves the last transaction out.
Active_EndExclusive(scenario, counter) ==
    scenario.start <= counter /\ counter < scenario.end

\* scenario['start'] <= self.transaction_counter <= scenario['end']
Active(scenario, counter) ==
    scenario.start <= counter /\ counter <= scenario.end

NoDraw == [hit |-> FALSE, retry |-> 0]

\* The random draws the loop body takes for one scenario.
DrawsFor(scenario, counter) ==
    IF ~Active(scenario, counter) THEN {NoDraw}
    ELSE IF scenario.type = "retry_storm"
      THEN {[hit |-> h, retry |-> r] :
               h \in RandomBelow(scenario.severity) \ {FALSE}, r \in RetryCounts}
           \cup {[hit |-> h, retry |-> 0] :
                    h \in RandomBelow(scenario.severity) \ {TRUE}}
    ELSE IF scenario.type = "error_clustering"
      THEN {[hit |-> h, retry |-> 0] : h \in RandomBelow(scenario.severity)}
    ELSE {NoDraw}

AllDraws == {[hit |-> h, retry |-> r] : h \in BOOLEAN, r \in {0} \cup RetryCounts}

DrawSeqs(scenarios, counter) ==
    {d \in [1..Len(scenarios) -> AllDraws] :
        \A i \in 1..Len(scenarios) : d[i] \in DrawsFor(scenarios[i], counter)}

\* A variant in which method fatigue sets the probability to its factor.
ApplyScenario_FatigueReplaces(scenario, draft, draw) ==
    IF ~Active(scenario, draft.counter) THEN draft
    ELSE IF scenario.type = "issuer_degradation"
      THEN IF scenario.affected = draft.issuer
             THEN [draft EXCEPT
                     !.success_prob = SMul(@, SSub(F_1, scenario.severity)),
                     !.base_latency = @ + FloatToInt(SMul(F_300, scenario.severity))]
             ELSE draft
    ELSE IF scenario.type = "method_fatigue"
      THEN IF scenario.affected = draft.payment_method
             THEN [draft EXCEPT
                     !.success_prob = SSub(F_1, scenario.severity)]
             ELSE draft
    ELSE IF scenario.type = "retry_storm"
      THEN IF draw.hit
             THEN [draft EXCEPT !.retry_count = draw.retry,
                                !.success_prob = SMul(@, F_0_7)]
             ELSE draft
    ELSE IF scenario.type = "latency_spike"
      THEN [draft EXCEPT
              !.base_latency = @ + FloatToInt(SMul(F_1000, scenario.severity))]
    ELSE IF scenario.type = "error_clustering"
      THEN IF draw.hit
             THEN [draft EXCEPT !.error_code = scenario.affected,
                                !.success_prob = F_0_1]
             ELSE draft
    ELSE draft

\* A variant in which an error-clustering hit multiplies the probability
\* by 0.1.
ApplyScenario_ClusteringMultiplies(scenario, draft, draw) ==
    IF ~Active(scenario, draft.counter) THEN draft
    ELSE IF scenario.type = "issuer_degradation"
      THEN IF scenario.affected = draft.issuer
             THEN [draft EXCEPT
                     !.success_prob = SMul(@, SSub(F_1, scenario.severity)),
                     !.base_latency = @ + FloatToInt(SMul(F_300, scenario.severity))]
             ELSE draft
    ELSE IF scenario.type = "method_fatigue"
      THEN IF scenario.affected = draft.payment_method
             THEN [draft EXCEPT
                     !.success_prob = SMul(@, SSub(F_1, scenario.severity))]
             ELSE draft
    ELSE IF scenario.type = "retry_storm"
      THEN IF draw.hit
             THEN [draft EXCEPT !.retry_count = draw.retry,
                                !.success_prob = SMul(@, F_0_7)]
             ELSE draft
    ELSE IF scenario.type = "latency_spike"
      THEN [draft EXCEPT
              !.base_latency = @ + FloatToInt(SMul(F_1000, scenario.severity))]
    ELSE IF scenario.type = "error_clustering"
      THEN IF draw.hit
             THEN [draft EXCEPT !.error_code = scenario.affected,
                                !.success_prob = SMul(@, F_0_1)]
             ELSE draft
    ELSE draft

\* The body of the scenario loop, for one scenario.
ApplyScenario(scenario, draft, draw) ==
    IF ~Active(scenario, draft.counter) THEN draft
    ELSE IF scenario.type = "issuer_degradation"
      THEN IF scenario.affected = draft.issuer
             THEN [draft EXCEPT
                     !.success_prob = SMul(@, SSub(F_1, scenario.severity)),
                     !.base_latency = @ + FloatToInt(SMul(F_300, scenario.severity))]
             ELSE draft
    ELSE IF scenario.type = "method_fatigue"
      THEN IF scenario.affected = draft.payment_method
             THEN [draft EXCEPT
                     !.success_prob = SMul(@, SSub(F_1, scenario.severity))]
             ELSE draft
    ELSE IF scenario.type = "retry_storm"
      THEN IF draw.hit
             THEN [draft EXCEPT !.retry_count = draw.retry,
                                !.success_prob = SMul(@, F_0_7)]
             ELSE draft
    ELSE IF scenario.type = "latency_spike"
      THEN [draft EXCEPT
              !.base_latency = @ + FloatToInt(SMul(F_1000, scenario.severity))]
    ELSE IF scenario.type = "error_clustering"
      THEN IF draw.hit
             THEN [draft EXCEPT !.error_code = scenario.affected,
                                !.success_prob = F_0_1]
             ELSE draft
    ELSE draft

\* for scenario in self.degradation_scenarios, from scenario i on.
RECURSIVE ApplyScenarios(_, _, _, _)
ApplyScenarios(scenarios, draws, i, draft) ==
    IF i > Len(scenarios) THEN draft
    ELSE ApplyScenarios(scenarios, draws, i + 1,
                        ApplyScenario(scenarios[i], draft, draws[i]))

\* The draft of a transaction before the outcome is drawn; `base` keeps
\* what random.randint(200, 800) returned.
Draft(scenarios, counter, payment_method, issuer, latency, draws) ==
    ApplyScenarios(scenarios, draws, 1,
                   [counter |-> counter,
                    base |-> latency.base,
                    payment_method |-> payment_method,
                    issuer |-> issuer,
                    success_prob |-> F_0_85,
                    base_latency |-> latency.base,
                    noise |-> latency.noise,
                    retry_count |-> 0,
                    error_code |-> "None"])

Drafts(scenarios, counter) ==
    {Draft(scenarios, counter, pm, is, l, d) :
        pm \in payment_methods, is \in issuer_banks, l \in LatencyDraws,
        d \in DrawSeqs(scenarios, counter)}

\* The names PaymentStatus has members for, and the member of each.
PaymentStatusNames == {"SUCCESS", "FAILURE", "PENDING"}

PaymentStatusMember(name) ==
    CASE name = "SUCCESS" -> Member("success")
      [] name = "FAILURE" -> Member("failure")
      [] name = "PENDING" -> Member("pending")

RECURSIVE Digits(_)
Digits(n) == IF n < 10 THEN <<n>> ELSE Digits(n \div 10) \o <<n % 10>>

RECURSIVE ZeroPad(_, _)
ZeroPad(d, w) == IF Len(d) >= w THEN d ELSE ZeroPad(<<0>> \o d, w)

\* f"txn_{self.transaction_counter:06d}": the prefix, then the decimal
\* digits, padded with zeros to six.
TransactionId(n) == <<"txn_">> \o ZeroPad(Digits(n), 6)

\* A variant that returns the latency as drafted.
Outcome_NoFloor(draft, success, default_error) ==
    LET name == IF success THEN "SUCCESS" ELSE "FAILED"
        error_code == IF success THEN "None"
                      ELSE IF draft.error_code = "None" THEN default_error
                      ELSE draft.error_code
        latency == draft.base_latency + draft.noise
    IN IF name \notin PaymentStatusNames
         THEN [raised |-> TRUE, success |-> success, draft |-> draft,
               signal |-> NoSignal]
         ELSE [raised |-> FALSE, success |-> success, draft |-> draft,
               signal |-> PaymentSignal(TransactionId(draft.counter),
                             [status |-> PaymentStatusMember(name),
                              latency_ms |-> latency,
                              error_code |-> error_code,
                              retry_count |-> draft.retry_count])]

\* The rest of generate_payment, from the outcome draw on: the call raises
\* AttributeError when it reads an attribute PaymentStatus does not have,
\* and returns a PaymentSignal otherwise.
Outcome(draft, success, default_error) ==
    LET name == IF success THEN "SUCCESS" ELSE "FAILED"
        error_code == IF success THEN "None"
                      ELSE IF draft.error_code = "None" THEN default_error
                      ELSE draft.error_code
        latency == draft.base_latency + draft.noise
    IN IF name \notin PaymentStatusNames
         THEN [raised |-> TRUE, success |-> success, draft |-> draft,
               signal |-> NoSignal]
         ELSE [raised |-> FALSE, success |-> success, draft |-> draft,
               signal |-> PaymentSignal(TransactionId(draft.counter),
                             [status |-> PaymentStatusMember(name),
                              latency_ms |-> Max(latency, 100),
                              error_code |-> error_code,
                              retry_count |-> draft.retry_count])]

\* Every way one generate_payment() call can end when the counter it has
\* just incremented is `counter`.
generate_payment(scenarios, counter) ==
    UNION {{Outcome(d, s, de) :
               s \in RandomBelow(d.success_prob), de \in error_codes} :
           d \in Drafts(scenarios, counter)}

NoCall ==
    [called |-> FALSE, raised |-> FALSE, success |-> FALSE,
     draft |-> Draft(<<>>, 0, "visa", "chase", [base |-> 200, noise |-> 0], <<>>),
     signal |-> NoSignal]

\* No generate_batch() call under way; `list` is what the latest one
\* returned: per element the signal, and the outcome and the retry count
\* drawn for it.
BatchIdle == [pc |-> "idle", count |-> 0, start |-> 0, got |-> 0, list |-> <<>>]

InitSimulator ==
    /\ degradation_scenarios = <<>>
    /\ transaction_counter = 0
    /\ gen = NoCall
    /\ issued = <<>>
    /\ batch = BatchIdle

\* One add_degradation_scenario(...) call, with arguments no earlier call
\* had.  The scenarios of a run are registered before its first payment is
\* generated, as setup_realistic_scenarios registers them.
AddScenario ==
    /\ batch.pc = "idle"
    /\ Len(degradation_scenarios) < MaxScenarios
    /\ transaction_counter = 0
    /\ \E a \in ScenarioInputs :
         /\ \A i \in DOMAIN degradation_scenarios :
               degradation_scenarios[i] # add_degradation_scenario(<<>>, a)[1]
         /\ degradation_scenarios' = add_degradation_scenario(degradation_scenarios, a)
    /\ UNCHANGED <<transaction_counter, gen, issued, batch>>
    /\ UNCHANGED <<govVars, thrVars, polVars, obsVars>>

\* What one generate_payment() call leaves behind: the counter, the call's
\* result (its draft, whether the outcome draw succeeded, whether the call
\* raised, the signal it returned) and the identifiers handed out so far.
GeneratePayment ==
    /\ transaction_counter' = transaction_counter + 1
    /\ \E r \in generate_payment(degradation_scenarios, transaction_counter + 1) :
         /\ gen' = [called |-> TRUE, raised |-> r.raised, success |-> r.success,
                    draft |-> r.draft, signal |-> r.signal]
         /\ issued' = IF r.raised THEN issued ELSE Append(issued, r.signal.transaction_id)
    /\ UNCHANGED degradation_scenarios

\* One generate_payment() call from outside.
Generate ==
    /\ batch.pc = "idle"
    /\ transaction_counter < MaxGenerate
    /\ GeneratePayment
    /\ UNCHANGED batch
    /\ UNCHANGED <<govVars, thrVars, polVars, obsVars>>

\* generate_batch(count) is entered ...
GenerateBatch ==
    /\ batch.pc = "idle"
    /\ \E count \in 0..(MaxGenerate - transaction_counter) :
         /\ batch' = [pc |-> "running", count |-> count,
                      start |-> transaction_counter, got |-> 0, list |-> <<>>]
    /\ UNCHANGED <<degradation_scenarios, transaction_counter, gen, issued>>
    /\ UNCHANGED <<govVars, thrVars, polVars, obsVars>>

\* ... calls generate_payment() for the next element of its list; an
\* exception of that call ends the batch ...
BatchStep ==
    /\ batch.pc = "running"
    /\ batch.got < batch.count
    /\ GeneratePayment
    /\ batch' = IF gen'.raised
                  THEN BatchIdle
                  ELSE [batch EXCEPT !.got = @ + 1,
                                     !.list = Append(@,
                                         [success |-> gen'.success,
                                          retry_count |-> gen'.draft.retry_count,
                                          signal |-> gen'.signal])]
    /\ UNCHANGED <<govVars, thrVars, polVars, obsVars>>

\* ... and returns the list after `count` calls.
BatchReturn ==
    /\ batch.pc = "running"
    /\ batch.got = batch.count
    /\ batch' = [BatchIdle EXCEPT !.list = batch.list]
    /\ UNCHANGED <<degradation_scenarios, transaction_counter, gen, issued>>
    /\ UNCHANGED <<govVars, thrVars, polVars, obsVars>>

\* The caller of generate_batch() hands the next signal of the returned
\* list to observe(): the signal the simulator built, its status given to
\* the constructor as the member of PaymentStatus the outcome names.
ObserveBatch ==
    /\ batch.pc = "idle"
    /\ Len(fed) < MaxSignals
    /\ Len(fed) < Len(batch.list)
    /\ LET next == batch.list[Len(fed) + 1] IN
         /\ signals' = list_append(signals, next.signal)
         /\ recent_signals' = list_append(recent_signals, next.signal)
         /\ fed' = Append(fed,
                [status |-> Member(IF next.success THEN "success" ELSE "failure"),
                 latency_ms |-> next.signal.latency_ms,
                 error_code |-> next.signal.error_code,
                 retry_count |-> next.retry_count])
    /\ UNCHANGED <<snapshot, o_pc, o_signal>>
    /\ UNCHANGED <<govVars, thrVars, polVars, simVars>>

InitGov ==
    /\ now = 0
    /\ action_log = <<>>
    /\ results = <<>>
    /\ pc = [c \in Callers |-> "idle"]
    /\ t_decision = [c \in Callers |-> "ADJUST_RETRY_POLICY"]
    /\ t_now = [c \in Callers |-> 0]
    /\ t_count = [c \in Callers |-> 0]

Init == InitGov /\ InitPolicy /\ InitObserver /\ InitSimulator

\* The wall clock moves forward between calls.
Tick ==
    /\ \E t \in Instants : t > now /\ now' = t
    /\ UNCHANGED <<action_log, results>>
    /\ UNCHANGED thrVars
    /\ UNCHANGED polVars
    /\ UNCHANGED <<obsVars, simVars>>

\* One whole call of allow(decision) by a single caller.
Allow ==
    /\ Len(results) < MaxAllowCalls
    /\ \E kind \in ActionTypes :
         LET r == allow(action_log, now, kind) IN
         /\ action_log' = r.log
         /\ results' = Append(results,
                [at |-> now, kind |-> kind, approved |-> r.approved,
                 reason |-> r.reason, counted |-> r.counted])
    /\ UNCHANGED now
    /\ UNCHANGED thrVars
    /\ UNCHANGED polVars
    /\ UNCHANGED <<obsVars, simVars>>

Next == Tick \/ Allow

Spec == Init /\ [][Next]_vars

(***************************************************************************)
(* Several callers inside allow() at once.  The method takes no lock, so   *)
(* the interpreter may switch callers between its statements: reading the  *)
(* clock (line 11), building last_hour (line 12), and the checks with the  *)
(* append (lines 14-21).                                                   *)
(***************************************************************************)
MaxLedger == 6

\* line 10-11: the call is entered and `now = datetime.now()` is read.
ReadClock(c) ==
    /\ pc[c] = "idle"
    /\ Len(action_log) + Cardinality({d \in Callers : pc[d] # "idle"}) < MaxLedger
    /\ \E kind \in ActionTypes : t_decision' = [t_decision EXCEPT ![c] = kind]
    /\ t_now' = [t_now EXCEPT ![c] = now]
    /\ pc' = [pc EXCEPT ![c] = "count"]
    /\ UNCHANGED <<t_count>>
    /\ UNCHANGED govVars
    /\ UNCHANGED polVars
    /\ UNCHANGED <<obsVars, simVars>>

\* line 12: last_hour is built from the ledger as it is at this moment.
CountLastHour(c) ==
    /\ pc[c] = "count"
    /\ t_count' = [t_count EXCEPT ![c] = Len(last_hour(action_log, t_now[c]))]
    /\ pc' = [pc EXCEPT ![c] = "decide"]
    /\ UNCHANGED <<t_decision, t_now>>
    /\ UNCHANGED govVars
    /\ UNCHANGED polVars
    /\ UNCHANGED <<obsVars, simVars>>

\* lines 14-21: the two checks on the locals, then the append and the return.
Decide(c) ==
    /\ pc[c] = "decide"
    /\ IF RateLimited(t_count[c]) \/ HighRisk(t_decision[c])
         THEN action_log' = action_log
         ELSE action_log' = Append(action_log, t_now[c])
    /\ pc' = [pc EXCEPT ![c] = "idle"]
    /\ UNCHANGED <<t_decision, t_now, t_count>>
    /\ UNCHANGED <<now, results>>
    /\ UNCHANGED polVars
    /\ UNCHANGED <<obsVars, simVars>>

NextConc ==
    \/ Tick
    \/ \E c \in Callers : ReadClock(c)
    \/ \E c \in Callers : CountLastHour(c)
    \/ \E c \in Callers : Decide(c)

SpecConc == Init /\ [][NextConc]_vars

(***************************************************************************)
(* The policy on its own: any metrics on each call, and the runs that      *)
(* repeat one success rate.                                                *)
(***************************************************************************)
NextPolicy == Update

SpecPolicy == Init /\ [][NextPolicy]_vars

InitDrift ==
    /\ InitGov
    /\ InitObserver
    /\ InitSimulator
    /\ success_threshold = F_0_8
    /\ update_calls = 0
    /\ metrics \in DriftInputs
    /\ returned = F_0_8
    /\ applied = NoneApplied

NextDrift == UpdateAgain

SpecDrift == InitDrift /\ [][NextDrift]_vars

(***************************************************************************)
(* The observer: signals observed one call at a time, and by producers     *)
(* whose observe() calls interleave between the two appends.               *)
(***************************************************************************)
NextObs == Observe \/ CalcMetrics

SpecObs == Init /\ [][NextObs]_vars

NextObsConc ==
    \/ \E p \in Producers : ObserveCall(p)
    \/ \E p \in Producers : AppendHistory(p)
    \/ \E p \in Producers : AppendMemory(p)
    \/ CalcMetrics

SpecObsConc == Init /\ [][NextObsConc]_vars

(***************************************************************************)
(* The simulator: scenarios registered and payments generated one at a     *)
(* time; and payments generated one at a time and in batches.              *)
(***************************************************************************)
NextSim ==
    \/ AddScenario
    \/ Generate

SpecSim == Init /\ [][NextSim]_vars

NextBatch ==
    \/ Generate
    \/ GenerateBatch
    \/ BatchStep
    \/ BatchReturn

SpecBatch == Init /\ [][NextBatch]_vars

(***************************************************************************)
(* The simulator feeding the observer: batches generated, the signals of   *)
(* the returned list observed one by one, and metrics calculated.          *)
(***************************************************************************)
NextPipe ==
    \/ GenerateBatch
    \/ BatchStep
    \/ BatchReturn
    \/ ObserveBatch
    \/ CalcMetrics

SpecPipe == Init /\ [][NextPipe]_vars

(***************************************************************************)
(* Properties of the guardrail.                                            *)
(***************************************************************************)
\* The call that the step from this state to the next one has returned from.
Called == Len(results') = Len(results) + 1

LastResult == results'[Len(results')]

\* The ledger entries that are less than one hour old at the instant n.
TrailingHour(log, n) == {i \in DOMAIN log : n - log[i] < 3600}

\* The calls 1..k were all made with a non-high-risk action, within one hour
\* of the first of them.
NormalRunInOneHour(k) ==
    \A i \in 1..k : /\ results[i].kind # "DISABLE_PAYMENT_METHOD"
                    /\ results[i].at - results[1].at < 3600

\* C1: from an empty ledger, the first five calls of a run of non-high-risk
\* calls made within one hour are approved with reason "Allowed", and the
\* sixth is rejected with reason "Rate limit exceeded".
C1_FiveAllowedSixthLimited ==
    \A k \in 1..Len(results) :
        NormalRunInOneHour(k) =>
            /\ (k <= 5 => results[k].approved /\ results[k].reason = "Allowed")
            /\ (k = 6 => /\ ~results[k].approved
                         /\ results[k].reason = "Rate limit exceeded")

C1_Witness ==
    /\ Len(results) >= 6
    /\ NormalRunInOneHour(6)
    /\ results[5].approved
    /\ results[6].reason = "Rate limit exceeded"

\* C2 (as claimed): the number of entries a call counts toward the quota is
\* the number of ledger entries whose age is less than 3600 seconds.
C2_CountsExactlyTrailingHour ==
    [][Called => LastResult.counted = Cardinality(TrailingHour(action_log, now))]_vars

\* The calls 2..k were all made with a non-high-risk action, within one hour
\* of call 1.
NormalAfterFirst(k) ==
    \A i \in 2..k : /\ results[i].kind # "DISABLE_PAYMENT_METHOD"
                    /\ results[i].at - results[1].at < 3600

\* C3: a first call with DISABLE_PAYMENT_METHOD on the empty ledger is
\* rejected with "High-risk action requires approval" and takes no quota:
\* the five non-high-risk calls that follow within the hour are approved.
C3_HighRiskTakesNoQuota ==
    (Len(results) >= 1 /\ results[1].kind = "DISABLE_PAYMENT_METHOD") =>
        /\ ~results[1].approved
        /\ results[1].reason = "High-risk action requires approval"
        /\ \A k \in 2..Len(results) :
              (k <= 6 /\ NormalAfterFirst(k)) =>
                  results[k].approved /\ results[k].reason = "Allowed"

C3_Witness ==
    /\ Len(results) >= 6
    /\ results[1].kind = "DISABLE_PAYMENT_METHOD"
    /\ NormalAfterFirst(6)
    /\ results[6].approved

\* C4: a high-risk call made while five or more ledger entries are less than
\* one hour old returns "Rate limit exceeded".
C4_RateLimitBeforeHighRisk ==
    [][(/\ Called
        /\ LastResult.kind = "DISABLE_PAYMENT_METHOD"
        /\ Cardinality(TrailingHour(action_log, now)) >= 5)
       => (~LastResult.approved /\ LastResult.reason = "Rate limit exceeded")]_vars

C4_Witness ==
    \E k \in 1..Len(results) :
        /\ results[k].kind = "DISABLE_PAYMENT_METHOD"
        /\ results[k].reason = "Rate limit exceeded"
        /\ Cardinality({i \in 1..(k-1) : /\ results[i].approved
                                         /\ results[k].at - results[i].at < 3600}) >= 5

\* C5: a rejected call leaves the ledger as it was; an approved call appends
\* the current timestamp, and nothing else, to the end of the ledger.
C5_OnlyApprovedRecorded ==
    [][Called => IF LastResult.approved
                   THEN action_log' = Append(action_log, now)
                   ELSE action_log' = action_log]_vars

C5_Witness ==
    /\ \E k \in 1..Len(results) : results[k].approved
    /\ \E k \in 1..Len(results) : results[k].reason = "Rate limit exceeded"
    /\ \E k \in 1..Len(results) :
          results[k].reason = "High-risk action requires approval"
    /\ Len(action_log) = 5

\* C6 (as claimed): when a call returns, the ledger holds no entry older
\* than 3600 seconds, and at most max-per-hour entries.
C6_LedgerPrunedToWindow ==
    [][Called => /\ \A i \in DOMAIN action_log' : now - action_log'[i] <= 3600
                 /\ Len(action_log') <= 5]_vars

\* C7 (as claimed): whatever the interleaving of concurrent callers, no
\* interval of one hour holds more than five approved calls.
C7_NoMoreThanFivePerHour ==
    \A i \in DOMAIN action_log :
        Cardinality({j \in DOMAIN action_log :
                        /\ action_log[j] >= action_log[i]
                        /\ action_log[j] - action_log[i] < 3600}) <= 5

\* The approved calls made in the 3600 seconds that start at the instant t
\* (t included, t + 3600 not).
ApprovedFrom(t) ==
    {j \in DOMAIN results : /\ results[j].approved
                            /\ results[j].at >= t
                            /\ results[j].at - t < 3600}

\* C21: calls made one after the other under a clock that never goes back:
\* no interval of 3600 seconds, taken from one approved call up to but not
\* including the instant 3600 seconds later, holds more than five approved
\* calls.
C21_SequentialQuotaPerInterval ==
    \A i \in DOMAIN results :
        results[i].approved =>
            Cardinality(ApprovedFrom(results[i].at)) <= max_autonomous_actions_per_hour

\* Five calls approved at one instant, a sixth rejected one second later,
\* and the next one approved when the five are 3600 seconds old.
C21_Witness ==
    /\ Len(results) >= 7
    /\ \A i \in 1..5 : results[i].approved /\ results[i].at = 0
    /\ results[6].at = 1
    /\ results[6].kind = "ADJUST_RETRY_POLICY"
    /\ results[6].reason = "Rate limit exceeded"
    /\ results[7].at = 3600
    /\ results[7].approved
    /\ Cardinality(ApprovedFrom(0)) = 5

(***************************************************************************)
(* Properties of the adaptive policy.                                      *)
(***************************************************************************)
\* The step from this state to the next one is a call of update().
Updated == update_calls' = update_calls + 1

\* The floats 1.0, 0.76, 0.722 and 0.8 * 0.95 * 1.05.
One == [inf |-> FALSE, m |-> <<0, 0, 0, 1024>>, e |-> -52]

F_0_76 == [inf |-> FALSE, m |-> <<14418, 5242, 7864, 1556>>, e |-> -53]

F_0_722 == [inf |-> FALSE, m |-> <<2228, 14811, 10747, 1478>>, e |-> -53]

F_0_798 == [inf |-> FALSE, m |-> <<10224, 12058, 4980, 1634>>, e |-> -53]

\* 9 * 2^-1074, about 4.4e-323.
TightenFloor == [inf |-> FALSE, m |-> <<9, 0, 0, 0>>, e |-> -1074]

Positive(x) == x.inf \/ BitLen(x.m) > 0

\* C8: the threshold starts at 0.8; a call with a success rate below 0.7
\* multiplies it by 0.95, one with a rate above 0.9 multiplies it by 1.05,
\* any other (0.7 and 0.9 included) leaves it as it is; the call returns the
\* threshold it has stored.
C8_UpdateRule ==
    /\ [](update_calls = 0 => success_threshold = F_0_8)
    /\ [][(Updated /\ "success_rate" \in DOMAIN metrics') =>
            LET sr == metrics'["success_rate"] IN
            /\ success_threshold' =
                 IF sr.n * 10 < 7 * sr.d THEN FMul(success_threshold, F_0_95)
                 ELSE IF sr.n * 10 > 9 * sr.d THEN FMul(success_threshold, F_1_05)
                 ELSE success_threshold
            /\ (sr \in {Rate(7, 10), Rate(9, 10)} =>
                    success_threshold' = success_threshold)
            /\ returned' = success_threshold']_vars

C8_Witness ==
    /\ update_calls >= 3
    /\ metrics = WithRate(9, 10)
    /\ success_threshold = F_0_798
    /\ returned = success_threshold

Tightening == metrics = WithRate(1, 2)

Relaxing == metrics = WithRate(19, 20)

\* C9 (as claimed): every call with success rate 0.5 makes the threshold
\* strictly smaller, and leaves it positive.
C9_StrictlyDecreasesOnEveryCall ==
    [][(Updated /\ Tightening) =>
          /\ FLess(success_threshold', success_threshold)
          /\ Positive(success_threshold')]_vars

\* C9 (amended): with success rate 0.5 on every call the threshold goes
\* 0.8, 0.76, 0.722, ..., never grows and stays positive; each of the first
\* 14462 calls makes it strictly smaller, and from then on it stays at the
\* subnormal float 9 * 2^-1074, which 0.95 times it rounds back to.
C9_DecreasesToSubnormalFloor ==
    /\ []((Tightening /\ update_calls = 1) => success_threshold = F_0_76)
    /\ []((Tightening /\ update_calls = 2) => success_threshold = F_0_722)
    /\ []((Tightening /\ update_calls >= 14462) => success_threshold = TightenFloor)
    /\ [][(Updated /\ Tightening) =>
            /\ Positive(success_threshold')
            /\ ~FLess(success_threshold, success_threshold')
            /\ (update_calls < 14462 =>
                    FLess(success_threshold', success_threshold))
            /\ (update_calls >= 14462 =>
                    success_threshold' = success_threshold)]_vars

C9_Witness ==
    /\ Tightening
    /\ update_calls > 14462
    /\ success_threshold = TightenFloor
    /\ returned = TightenFloor

\* C10 (as claimed): every call with success rate 0.95 makes the threshold
\* strictly larger.
C10_StrictlyIncreasesOnEveryCall ==
    [][(Updated /\ Relaxing) =>
          FLess(success_threshold, success_threshold')]_vars

\* C10 (amended): with success rate 0.95 on every call the threshold never
\* shrinks; each of the first 14553 calls makes it strictly larger, it is
\* above 1.0 from the fifth call on, and the 14553rd call overflows it to
\* +inf, above every finite bound, where it stays.
C10_IncreasesToInfinity ==
    /\ []((Relaxing /\ update_calls < 5) => ~FLess(One, success_threshold))
    /\ []((Relaxing /\ update_calls >= 5) => FLess(One, success_threshold))
    /\ []((Relaxing /\ update_calls < 14553) => ~success_threshold.inf)
    /\ []((Relaxing /\ update_calls >= 14553) => success_threshold.inf)
    /\ [][(Updated /\ Relaxing) =>
            /\ ~FLess(success_threshold', success_threshold)
            /\ (update_calls < 14553 =>
                    FLess(success_threshold, success_threshold'))
            /\ (update_calls >= 14553 =>
                    success_threshold' = success_threshold)]_vars

C10_Witness ==
    /\ Relaxing
    /\ update_calls > 14553
    /\ success_threshold.inf
    /\ returned.inf

\* C27: a call of update() with the metrics of an observer that has seen no
\* signal (success_rate 0.0), or with metrics that have no success_rate key,
\* multiplies the threshold by 0.95: it tightens, and does not leave the
\* threshold as it is.
C27_NoDataTightens ==
    /\ [](calculate_metrics(<<>>)["success_rate"] = Rate(0, 1))
    /\ [][(Updated /\ (\/ metrics' = calculate_metrics(<<>>)
                       \/ "success_rate" \notin DOMAIN metrics')) =>
            /\ success_threshold' = FMul(success_threshold, F_0_95)
            /\ FLess(success_threshold', success_threshold)
            /\ applied'.tightened = applied.tightened + 1
            /\ returned' = success_threshold']_vars

\* Two calls, the second with the metrics of an observer without signals.
C27_Witness ==
    /\ update_calls = 2
    /\ applied.tightened = 2
    /\ metrics = calculate_metrics(<<>>)
    /\ "total_volume" \in DOMAIN metrics
    /\ metrics["total_volume"] = 0
    /\ success_threshold = F_0_722

\* x * f * ... * f, with n factors f, every product rounded.
RECURSIVE Times(_, _, _)
Times(x, f, n) == IF n = 0 THEN x ELSE Times(FMul(x, f), f, n - 1)

\* The threshold after the tightening calls followed by the relaxing ones:
\* a function of the two counts alone.
TightenedThenRelaxed(counts) ==
    Times(Times(F_0_8, F_0_95, counts.tightened), F_1_05, counts.relaxed)

\* The floats 0.720195 and 0.7201949999999999, one unit in the last place
\* apart, and 1 - 2^-49 and 1 + 2^-49.
F_0_720195 == [inf |-> FALSE, m |-> <<1117, 2527, 15718, 1474>>, e |-> -53]

F_0_720195_Below == [inf |-> FALSE, m |-> <<1116, 2527, 15718, 1474>>, e |-> -53]

JustBelowOne == [inf |-> FALSE, m |-> <<16368, 16383, 16383, 2047>>, e |-> -53]

JustAboveOne == [inf |-> FALSE, m |-> <<8, 0, 0, 1024>>, e |-> -52]

\* x is within the relative distance 2^-49 of y.
Near(x, y) ==
    /\ ~FLess(x, FMul(y, JustBelowOne))
    /\ ~FLess(FMul(y, JustAboveOne), x)

FedWith(n, v) == {i \in 1..n : fed[i].status.value = v}

\* a + b compared with 1, for two quotients of integers.
RateSum(a, b) == a.n * b.d + b.n * a.d

RateOne(a, b) == a.d * b.d

\* C11 (as claimed): whatever way the producers express the statuses, a
\* snapshot taken after n signals has success_count + failure_count + (the
\* number of PENDING signals) = n and total_volume = n.
C11_CountsPartitionHistory ==
    snapshot.taken =>
        /\ snapshot.m.success_count + snapshot.m.failure_count
             + Cardinality(FedWith(snapshot.at, "pending")) = snapshot.at
        /\ snapshot.m.total_volume = snapshot.at

\* C12 (as claimed): a snapshot of n > 0 signals has success_rate +
\* failure_rate = 1 when every signal is SUCCESS or FAILURE; with PENDING
\* signals among them both rates are taken over n and the sum is below 1.
C12_RatesSumToOne ==
    (snapshot.taken /\ snapshot.at > 0) =>
        IF FedWith(snapshot.at, "pending") = {}
          THEN RateSum(snapshot.m.success_rate, snapshot.m.failure_rate)
                 = RateOne(snapshot.m.success_rate, snapshot.m.failure_rate)
          ELSE /\ snapshot.m.success_rate.d = snapshot.at
               /\ snapshot.m.failure_rate.d = snapshot.at
               /\ RateSum(snapshot.m.success_rate, snapshot.m.failure_rate)
                    < RateOne(snapshot.m.success_rate, snapshot.m.failure_rate)

\* C13: a snapshot of zero signals has every field zero, and no snapshot
\* holds a quotient taken by zero.
C13_ZeroSignalsAllZero ==
    snapshot.taken =>
        /\ snapshot.m.success_rate.d # 0
        /\ snapshot.m.failure_rate.d # 0
        /\ snapshot.m.avg_latency.d # 0
        /\ snapshot.m.retry_rate.d # 0
        /\ (snapshot.at = 0 =>
              /\ snapshot.m.total_volume = 0
              /\ snapshot.m.success_count = 0
              /\ snapshot.m.failure_count = 0
              /\ snapshot.m.success_rate.n = 0
              /\ snapshot.m.failure_rate.n = 0
              /\ snapshot.m.avg_latency.n = 0
              /\ snapshot.m.retry_rate.n = 0)

C13_Witness ==
    /\ snapshot.taken
    /\ snapshot.at = 0
    /\ snapshot.m.total_volume = 0

\* C19: once the observe calls of concurrent producers have all returned,
\* the history holds each observed signal exactly once, and a snapshot
\* taken then has total_volume equal to the number of calls.
C19_ConcurrentObserveLosesNothing ==
    /\ (\A p \in Producers : o_pc[p] = "idle") =>
          /\ Len(signals) = Len(fed)
          /\ \A i \in 1..Len(fed) :
                Cardinality({j \in DOMAIN signals :
                                /\ signals[j].transaction_id = i
                                /\ signals[j].latency_ms = fed[i].latency_ms
                                /\ signals[j].error_code = fed[i].error_code}) = 1
    /\ (snapshot.taken /\ snapshot.quiet) =>
          snapshot.m.total_volume = snapshot.at

C19_Witness ==
    /\ \A p \in Producers : o_pc[p] = "idle"
    /\ Len(fed) = 3
    /\ Len(signals) = 3
    /\ signals[1].transaction_id = 2
    /\ snapshot.taken /\ snapshot.quiet /\ snapshot.at = 3

\* C20: the retry rate of every snapshot is 0.0, whatever was observed and
\* whatever retry counts the signals were built with.
C20_RetryRateAlwaysZero ==
    snapshot.taken => (snapshot.m.retry_rate.n = 0 /\ snapshot.m.retry_rate.d # 0)

C20_Witness ==
    /\ snapshot.taken
    /\ \E i \in 1..snapshot.at :
          /\ fed[i].retry_count > 0
          /\ fed[i].status = PlainStr("failure")
    /\ snapshot.m.failure_count > 0
    /\ snapshot.m.retry_rate.n = 0

\* C24: every calculate_metrics() call leaves the history and the memory
\* as they are and reports as total_volume the number of observe calls made
\* since construction, none of the signals evicted; a call made with no
\* observe call since the one before returns the snapshot the one before
\* returned.
C24_MetricsOverWholeHistory ==
    [][snapshot' # snapshot =>
         /\ signals' = signals
         /\ recent_signals' = recent_signals
         /\ Len(signals') = Len(fed')
         /\ snapshot'.m.total_volume = Len(fed')
         /\ snapshot'.repeat => snapshot'.m = snapshot.m
      ]_vars

\* The second of two calls made after three observe calls.
C24_Witness ==
    /\ snapshot.taken
    /\ snapshot.repeat
    /\ snapshot.at = 3
    /\ snapshot.m.total_volume = 3
    /\ Len(signals) = 3

(***************************************************************************)
(* Properties of the simulator.                                            *)
(***************************************************************************)
\* The signal's status is the one PaymentStatus names v, stored as the str
\* of the member or as its value.
StatusIs(signal, v) == signal.status \in {v, Str(Member(v))}

\* The step from this state to the next one is a generate_payment() call.
Generated == transaction_counter' = transaction_counter + 1

\* C14 (as claimed): every generate_payment() call returns a signal, on
\* the branch where the outcome draw fails too, and the signal's status is
\* SUCCESS or FAILURE.
C14_GenerationCannotFail ==
    gen.called =>
        /\ ~gen.raised
        /\ StatusIs(gen.signal, "success") \/ StatusIs(gen.signal, "failure")

\* C15 (as claimed): every registered scenario has end >= start and a
\* severity in [0, 1]; a call with other arguments is rejected and leaves
\* the list as it was.
C15_RegisteredScenariosWellFormed ==
    \A i \in DOMAIN degradation_scenarios :
        /\ degradation_scenarios[i].end >= degradation_scenarios[i].start
        /\ ~SLess(degradation_scenarios[i].severity, F_0)
        /\ ~SLess(F_1, degradation_scenarios[i].severity)

\* C16 (as claimed): every generate_payment() call adds one to the counter
\* and returns a signal, the k-th signal of the run, whose identifier is
\* that of counter k and was not handed out before; a generate_batch(count)
\* call ends by returning count signals with the counter advanced by
\* count; and no call changes the scenario list.
C16_CounterOncePerSignal ==
    [][/\ Generated =>
            /\ ~gen'.raised
            /\ Len(issued') = Len(issued) + 1
            /\ transaction_counter' = Len(issued')
            /\ issued'[Len(issued')] = TransactionId(Len(issued'))
            /\ \A k \in DOMAIN issued : issued[k] # issued'[Len(issued')]
       /\ (batch.pc = "running" /\ batch'.pc = "idle") =>
            /\ batch.got = batch.count
            /\ transaction_counter' = batch.start + batch.count
       /\ (Generated \/ batch' # batch) =>
            degradation_scenarios' = degradation_scenarios
      ]_vars

Chase_0_6 ==
    add_degradation_scenario(<<>>,
        ScenarioArgs("issuer_degradation", "chase", 1, 1, F_0_6))[1]

Visa_0_4 ==
    add_degradation_scenario(<<>>,
        ScenarioArgs("method_fatigue", "visa", 2, 0, F_0_4))[1]

\* base * (1 - 0.6) * (1 - 0.4), base * (1 - 0.6) and base * (1 - 0.4).
BothMultipliers == SMul(SMul(F_0_85, SSub(F_1, F_0_6)), SSub(F_1, F_0_4))

OnlyIssuerMultiplier == SMul(F_0_85, SSub(F_1, F_0_6))

OnlyMethodMultiplier == SMul(F_0_85, SSub(F_1, F_0_4))

\* The float 0.20400000000000001.
F_0_204 == Signed(FALSE, [inf |-> FALSE, m |-> <<9962, 8388, 2752, 1671>>, e |-> -55])

\* C17: with ISSUER_DEGRADATION(chase, 0.6) and METHOD_FATIGUE(visa, 0.4)
\* registered, in either order, a payment drafted with issuer chase and
\* method visa at a counter inside both windows has the success probability
\* base * (1 - 0.6) * (1 - 0.4); one that matches only the issuer scenario
\* (by its issuer and the counter) has base * (1 - 0.6), one that matches
\* only the method scenario has base * (1 - 0.4), one that matches neither
\* has the base probability.
C17_OverlapMultipliesBoth ==
    [][(/\ Generated
        /\ degradation_scenarios \in {<<Chase_0_6, Visa_0_4>>, <<Visa_0_4, Chase_0_6>>})
       => LET d == gen'.draft
              issuer == /\ d.issuer = "chase"
                        /\ Chase_0_6.start <= d.counter
                        /\ d.counter <= Chase_0_6.end
              method == /\ d.payment_method = "visa"
                        /\ Visa_0_4.start <= d.counter
                        /\ d.counter <= Visa_0_4.end
          IN d.success_prob =
               IF issuer /\ method THEN BothMultipliers
               ELSE IF issuer THEN OnlyIssuerMultiplier
               ELSE IF method THEN OnlyMethodMultiplier
               ELSE F_0_85
      ]_vars

C17_Witness ==
    /\ degradation_scenarios = <<Visa_0_4, Chase_0_6>>
    /\ gen.called
    /\ gen.draft.counter = 2
    /\ gen.draft.issuer = "chase"
    /\ gen.draft.payment_method = "visa"
    /\ gen.draft.success_prob = BothMultipliers
    /\ gen.draft.success_prob = F_0_204

Without(seq, i) == SubSeq(seq, 1, i - 1) \o SubSeq(seq, i + 1, Len(seq))

\* The draws the scenario loop took for the draft d: a retry storm hit
\* when the draft has a retry count, an error clustering when the draft
\* has its error code (the inputs hold one scenario of each kind).
DrawsOf(d) ==
    [i \in DOMAIN degradation_scenarios |->
        IF degradation_scenarios[i].type = "retry_storm"
          THEN [hit |-> d.retry_count # 0, retry |-> d.retry_count]
        ELSE IF degradation_scenarios[i].type = "error_clustering"
          THEN [hit |-> d.error_code = degradation_scenarios[i].affected, retry |-> 0]
        ELSE NoDraw]

\* The draft the same call would have made, with the same random draws, had
\* the i-th scenario not been registered.
DraftWithout(d, i) ==
    Draft(Without(degradation_scenarios, i), d.counter, d.payment_method,
          d.issuer, [base |-> d.base, noise |-> d.noise], Without(DrawsOf(d), i))

InWindow(scenario, k) == scenario.start <= k /\ k <= scenario.start + (scenario.end - scenario.start)

\* The scenario acts on every transaction of its window that it matches: an
\* issuer or method scenario on its issuer or method, a latency spike on all.
Matches(scenario, d) ==
    \/ scenario.type = "issuer_degradation" /\ scenario.affected = d.issuer
    \/ scenario.type = "method_fatigue" /\ scenario.affected = d.payment_method
    \/ scenario.type = "latency_spike"

\* C22: the call that generates with transaction count k drafts, for each
\* registered scenario whose window s..s+d does not hold k, the success
\* probability and the base latency (and the rest of the draft) it would
\* have drafted without that scenario; and a scenario registered alone
\* changes the probability or the base latency of every transaction it
\* matches with s <= k <= s + d, both ends included.
C22_WindowInclusiveByCount ==
    gen.called =>
        /\ gen.draft.counter = transaction_counter
        /\ \A i \in DOMAIN degradation_scenarios :
              ~InWindow(degradation_scenarios[i], gen.draft.counter) =>
                  \E w \in {DraftWithout(gen.draft, i)} :
                     /\ gen.draft.success_prob = w.success_prob
                     /\ gen.draft.base_latency = w.base_latency
                     /\ gen.draft = w
        /\ (/\ Len(degradation_scenarios) = 1
            /\ InWindow(degradation_scenarios[1], gen.draft.counter)
            /\ Matches(degradation_scenarios[1], gen.draft))
           => \/ gen.draft.success_prob # F_0_85
              \/ gen.draft.base_latency # gen.draft.base

Storm_0_5 ==
    add_degradation_scenario(<<>>,
        ScenarioArgs("retry_storm", "global", 1, 0, F_0_5))[1]

\* The second transaction, past the end of the storm's window 1..1 and on
\* the last count of the issuer scenario's window 1..2.
C22_Witness ==
    /\ degradation_scenarios = <<Storm_0_5, Chase_0_6>>
    /\ gen.called
    /\ gen.draft.counter = 2
    /\ gen.draft.issuer = "chase"
    /\ gen.draft.retry_count = 0
    /\ gen.draft.success_prob = OnlyIssuerMultiplier
    /\ gen.draft.base_latency = gen.draft.base + 180

Cluster_0_25 ==
    add_degradation_scenario(<<>>,
        ScenarioArgs("error_clustering", "E005_FRAUD_SUSPECTED", 1, 1, F_0_25))[1]

\* The draft took an error-clustering hit of the i-th scenario.
ClusteringHit(d, i) ==
    /\ degradation_scenarios[i].type = "error_clustering"
    /\ InWindow(degradation_scenarios[i], d.counter)
    /\ d.error_code = degradation_scenarios[i].affected

\* The probability p after the multipliers of the scenarios registered
\* after the i-th: (1 - severity) of an issuer or method scenario the
\* transaction matches inside its window, 0.7 of a retry storm that hit.
RECURSIVE LaterMultipliers(_, _, _)
LaterMultipliers(p, d, i) ==
    IF i >= Len(degradation_scenarios) THEN p
    ELSE LET later == degradation_scenarios[i + 1]
             q == IF ~InWindow(later, d.counter) THEN p
                  ELSE IF later.type \in {"issuer_degradation", "method_fatigue"}
                          /\ Matches(later, d)
                    THEN SMul(p, SSub(F_1, later.severity))
                  ELSE IF later.type = "retry_storm" /\ d.retry_count # 0
                    THEN SMul(p, F_0_7)
                  ELSE p
         IN LaterMultipliers(q, d, i + 1)

\* The float 0.04000000000000001.
F_0_04 == Signed(FALSE, [inf |-> FALSE, m |-> <<5244, 7864, 11796, 1310>>, e |-> -57])

\* C23: when a call takes an error-clustering hit, the drafted success
\* probability is 0.1 with the multipliers of the scenarios registered
\* after the hit one applied to it in registration order, whatever the
\* scenarios registered before it did: 0.1 when the issuer scenario was
\* registered first, 0.1 * (1 - 0.6) when it was registered second; and
\* every step leaves the scenario list as it was or with one entry added
\* at its end.
C23_RegistrationOrderMatters ==
    [][/\ Generated =>
            LET d == gen'.draft IN
            /\ \A i \in DOMAIN degradation_scenarios :
                  ClusteringHit(d, i) =>
                      d.success_prob = LaterMultipliers(F_0_1, d, i)
            /\ (degradation_scenarios = <<Chase_0_6, Cluster_0_25>>
                  /\ ClusteringHit(d, 2)) => d.success_prob = F_0_1
            /\ (degradation_scenarios = <<Cluster_0_25, Chase_0_6>>
                  /\ ClusteringHit(d, 1) /\ d.issuer = "chase")
                 => d.success_prob = SMul(F_0_1, SSub(F_1, F_0_6))
       /\ \/ degradation_scenarios' = degradation_scenarios
          \/ /\ Len(degradation_scenarios') = Len(degradation_scenarios) + 1
             /\ SubSeq(degradation_scenarios', 1, Len(degradation_scenarios))
                  = degradation_scenarios
      ]_vars

\* The hit with the issuer scenario registered after the clustering one.
C23_Witness ==
    /\ degradation_scenarios = <<Cluster_0_25, Chase_0_6>>
    /\ gen.called
    /\ gen.draft.issuer = "chase"
    /\ gen.draft.error_code = "E005_FRAUD_SUSPECTED"
    /\ gen.draft.success_prob = F_0_04
    /\ gen.draft.success_prob # F_0_1

\* C26: every signal generate_payment() returns has a latency of at least
\* 100 ms.
C26_LatencyFloor ==
    (gen.called /\ ~gen.raised) => gen.signal.latency_ms >= 100

\* A signal whose drafted latency, dragged down by a latency spike of
\* negative severity and by the noise, is below the floor.
C26_Witness ==
    /\ gen.called
    /\ ~gen.raised
    /\ gen.draft.base_latency + gen.draft.noise < 100
    /\ gen.draft.base_latency < gen.draft.base
    /\ gen.signal.latency_ms = 100

(***************************************************************************)
(* Properties of the simulator feeding the observer.                       *)
(***************************************************************************)
\* The observer has been handed the whole list the latest generate_batch()
\* call returned, and nothing else.
BatchFed ==
    /\ batch.pc = "idle"
    /\ Len(signals) = Len(batch.list)
    /\ \A i \in DOMAIN batch.list : signals[i] = batch.list[i].signal

\* C25 (as claimed): after a batch of the simulator was handed to observe()
\* signal by signal, calculate_metrics() reports as success_count the number
\* of signals generated with the outcome SUCCESS and as failure_count the
\* number generated with the outcome FAILURE.
C25_BatchCountsMatchOutcomes ==
    (snapshot.taken /\ snapshot.at = Len(fed) /\ BatchFed) =>
        /\ snapshot.m.success_count =
              Cardinality({i \in DOMAIN batch.list : batch.list[i].success})
        /\ snapshot.m.failure_count =
              Cardinality({i \in DOMAIN batch.list : ~batch.list[i].success})

====
